---- MODULE Spec2Model ----
(***************************************************************************)
(* Model of the note <-> Markdown synchronisation of zotero-better-notes:  *)
(* the scheduler (setSyncing), the single-flight orchestrator             *)
(* (callSyncing), the three-way comparator (doCompare) and the enrolment  *)
(* path of the exporter (exportNotes, toSync).                            *)
(***************************************************************************)
EXTENDS Integers, Sequences, FiniteSets, TLC

\* ------------------------------------------------------------------ bounds
MaxNotes == 2
MaxRuns == 2
MaxEdits == 2
MaxExports == 1
MaxVersion == 1
MaxPeriod == 2

NoteIds == 1..MaxNotes
Slots == 1..MaxRuns
Dirs == {"d1", "d2"}
NoteContents == {"<p>a</p>", "<p>b</p>"}
MDContents == {"a", "b"}
Versions == 0..MaxVersion
\* The values of the pref syncPeriodSeconds: disabled (0 or below) or a period.
Periods == {-1} \cup 0..MaxPeriod

\* ------------------------------------------------------- pure collaborators
\* Zotero.Utilities.Internal.md5: the digests of the model's contents
\* (first eight hex digits of the real MD5 values).
md5(s) ==
  CASE s = "<p>a</p>" -> "9fb83da5"
    [] s = "<p>b</p>" -> "db85e08f"
    [] s = "a" -> "0cc175b9"
    [] s = "b" -> "92eb5ffe"
    [] OTHER -> "d41d8cd9"

\* note2md as used by syncMDBatch: the Markdown rendering of a note's HTML.
note2md(html) == IF html = "<p>a</p>" THEN "a" ELSE "b"

\* md2note as used by fromMD: the HTML of a Markdown file's content.
md2note(md) == IF md = "a" THEN "<p>a</p>" ELSE "<p>b</p>"

\* OS.Path.join(path, filename): the key of a file on disk.
PathJoin(path, filename) == <<path, filename>>

\* addon.api.sync.getMDFileName: one file name per note (named by its id).
getMDFileName(id) == id

SyncCode == {"UpToDate", "NoteAhead", "MDAhead", "NeedDiff"}

\* A file that does not exist: getMDStatus returns no meta for it.
NoFile == [meta |-> FALSE, version |-> 0, content |-> ""]
\* The store's answer for a note that is not under sync.
NoRecord == [itemID |-> 0, path |-> "", filename |-> 0, md5 |-> "",
             noteMd5 |-> "", lastsync |-> 0]

MDStatuses ==
  {NoFile} \cup [meta : {TRUE}, version : {-1} \cup Versions, content : MDContents]
NoteItems == [content : NoteContents, version : Versions]

\* ------------------------------------------------------------------- state
VARIABLES
  lock,      \* addon.data.sync.lock
  dataEnv,   \* addon.data.env
  store,     \* Sync Status Store: note id -> SyncStatus (NoRecord: not synced)
  notes,     \* Zotero note items: id -> [content, version]
  mdfile,    \* files on disk: <<dir, filename>> -> MDStatus
  editors,   \* Zotero.Notes._editorInstances: id -> none/focused/dead
  runs,      \* the callSyncing invocations: slot -> its locals and position
  exp,       \* the exportNotes invocation: its locals and position
  sched,     \* setSyncing's timer and syncPeriod, addon.data.alive, the window's
             \* focus, the pref syncPeriodSeconds (period)
  lastCall,  \* how the latest callSyncing call ended its synchronous part
  edits,     \* environment steps taken so far
  exports,   \* exportNotes invocations so far
  cmp        \* inputs and result of a stand-alone doCompare

vars == <<lock, dataEnv, store, notes, mdfile, editors, runs, exp, sched,
          lastCall, edits, exports, cmp>>

\* ------------------------------------------------------------- doCompare
doCompare_swapped(syncStatus, MDStatus, noteItem) ==
  IF ~MDStatus.meta THEN "NoteAhead"
  ELSE IF MDStatus.version < 0 THEN "NeedDiff"
  ELSE
    LET MDAhead == md5(MDStatus.content) # syncStatus.md5
        noteAhead == \/ md5(noteItem.content) # syncStatus.noteMd5
                     \/ MDStatus.version # noteItem.version
    IN  IF noteAhead /\ MDAhead THEN "NeedDiff"
        ELSE IF noteAhead THEN "MDAhead"
        ELSE IF MDAhead THEN "NoteAhead"
        ELSE "UpToDate"

doCompare_noVersion(syncStatus, MDStatus, noteItem) ==
  IF ~MDStatus.meta THEN "NoteAhead"
  ELSE IF MDStatus.version < 0 THEN "NeedDiff"
  ELSE
    LET MDAhead == md5(MDStatus.content) # syncStatus.md5
        noteAhead == md5(noteItem.content) # syncStatus.noteMd5
    IN  IF noteAhead /\ MDAhead THEN "NeedDiff"
        ELSE IF noteAhead THEN "NoteAhead"
        ELSE IF MDAhead THEN "MDAhead"
        ELSE "UpToDate"

\* doCompare on the record read at entry, the file status getMDStatus
\* returned and the note as it is when the await resumes.
doCompare(syncStatus, MDStatus, noteItem) ==
  IF ~MDStatus.meta THEN "NoteAhead"
  ELSE IF MDStatus.version < 0 THEN "NeedDiff"
  ELSE
    LET MDAhead == md5(MDStatus.content) # syncStatus.md5
        noteAhead == \/ md5(noteItem.content) # syncStatus.noteMd5
                     \/ MDStatus.version # noteItem.version
    IN  IF noteAhead /\ MDAhead THEN "NeedDiff"
        ELSE IF noteAhead THEN "NoteAhead"
        ELSE IF MDAhead THEN "MDAhead"
        ELSE "UpToDate"

\* ------------------------------------------------------------ data helpers
RECURSIVE SeqOfSet(_)
\* Ascending list of a set of ids (the order of getSyncNoteIds).
SeqOfSet(S) ==
  IF S = {} THEN <<>>
  ELSE LET m == CHOOSE x \in S : \A y \in S : x <= y
       IN  <<m>> \o SeqOfSet(S \ {m})

Range(s) == {s[k] : k \in 1..Len(s)}

\* The item lists a caller may pass: lists of distinct notes, <<>> for none.
ItemLists ==
  {s \in UNION {[1..n -> NoteIds] : n \in 0..MaxNotes} :
     \A j, k \in 1..Len(s) : j # k => s[j] # s[k]}

\* The lists in ascending order of id.
SortedLists == {s \in ItemLists : \A j, k \in 1..Len(s) : j < k => s[j] < s[k]}

\* addon.api.sync.isSyncNote / getSyncNoteIds / getSyncStatus on a store st.
isSyncNote(st, id) == st[id].itemID # 0
getSyncNoteIds(st) == SeqOfSet({id \in NoteIds : isSyncNote(st, id)})
getSyncStatus(st, id) == st[id]

\* One entry of a run's trace: what the run did, in the order it did it.
Event(op, id, path, ids, res, focused) ==
  [op |-> op, id |-> id, path |-> path, ids |-> ids, res |-> res,
   focused |-> focused]

\* A callSyncing invocation that is not running: its locals at their defaults.
IdleRun ==
  [pc |-> "idle", outcome |-> "none", given |-> <<>>, candidates |-> <<>>,
   items |-> <<>>, i |-> 0, syncStatus |-> NoRecord, toExport |-> <<>>,
   toImport |-> <<>>, toDiff |-> <<>>, skipActive |-> FALSE, reason |-> "",
   skippedCount |-> 0, progress |-> FALSE, trace |-> <<>>, quiet |-> FALSE]

\* The options of exportNotes that the model follows (api.ts 14-25);
\* exportDocx, exportFreeMind and exportPDF are off and withYAMLHeader has no
\* effect on anything below.
Options ==
  [embedLink : BOOLEAN, standaloneLink : BOOLEAN, exportNote : BOOLEAN,
   exportMD : BOOLEAN, setAutoSync : BOOLEAN]

\* Export to Markdown with auto-sync, and nothing else.
SyncOptions ==
  [embedLink |-> FALSE, standaloneLink |-> FALSE, exportNote |-> FALSE,
   exportMD |-> TRUE, setAutoSync |-> TRUE]

NoOptions ==
  [embedLink |-> FALSE, standaloneLink |-> FALSE, exportNote |-> FALSE,
   exportMD |-> FALSE, setAutoSync |-> FALSE]

\* An exportNotes invocation that is not running. given: noteItems; items:
\* inputNoteItems; linked: linkedNoteItems; all: allNoteItems. temp and erased
\* belong to Zotero's items: temp[j] is the note that the j-th note created by
\* ZoteroPane.newNote() (its id is MaxNotes + j) is a copy of, erased are the
\* ids that Zotero.Items.erase() removed.
IdleExp ==
  [pc |-> "idle", options |-> NoOptions, given |-> <<>>, items |-> <<>>,
   linked |-> <<>>, all |-> <<>>, k |-> 0, syncDir |-> "", run |-> 0,
   temp |-> <<>>, erased |-> {}]

\* ---------------------------------------------- callSyncing: the entry part
LockHeld_never == FALSE
\* Line 40: the single-flight test.
LockHeld == lock

\* Line 55: the lock's value at the empty-set return.
EmptyReturnLock == FALSE

FinalLock_kept == TRUE
\* Line 186: the lock's value when the function falls out of try/catch/finally.
FinalLock == FALSE

ResolveItems_unfiltered(items, st) ==
  IF items = <<>> THEN getSyncNoteIds(st) ELSE items
\* Lines 49-53: the notes under sync, or the given notes that are under sync.
ResolveItems(items, st) ==
  IF items = <<>> THEN getSyncNoteIds(st)
  ELSE SelectSeq(items, LAMBDA id : isSyncNote(st, id))

ActiveNoteIds_none == {}
\* Lines 60-66: the notes of the editors whose window is alive and has the
\* focus ("none": no editor of the note, or one without the focus).
ActiveNoteIds ==
  {id \in NoteIds : editors[id] # "dead" /\ editors[id] = "focused"}

\* Line 70.
SkippedCount(before, after) == Len(before) - Len(after)

\* Lines 58-72: the candidates left once the active editors' notes are out.
FilterActive(items, skipActive) ==
  IF skipActive
  THEN SelectSeq(items, LAMBDA id : id \notin ActiveNoteIds)
  ELSE items

\* A returned invocation's locals are kept for one step, for inspection, and
\* are gone after it.
Retire(rs) == [s \in Slots |-> IF rs[s].pc = "idle" THEN IdleRun ELSE rs[s]]

\* A step that neither calls callSyncing nor resumes it.
NoCall == runs' = Retire(runs) /\ lastCall' = "none"

\* The lowest slot free for a new invocation.
FreeSlots == {s \in Slots : runs[s].pc = "idle"}
FreeSlot == CHOOSE s \in FreeSlots : \A t \in FreeSlots : s <= t

\* --------------------------------------------------- the dispatch sequence
\* Lines 167-186: the loops are over; the function returns.
Finish(r) == [r EXCEPT !.pc = "idle", !.outcome = "done"]

PhaseOrder_importFirst == <<"import", "export", "diff">>
\* Lines 127, 139 and 155: the three dispatch loops, in their textual order.
PhaseOrder == <<"export", "import", "diff">>

\* Whether the loop of a phase has anything to iterate over.
Pending(r, phase) ==
  CASE phase = "export" -> r.toExport # <<>>
    [] phase = "import" -> r.toImport # <<>>
    [] OTHER -> r.toDiff # <<>>

RECURSIVE StartPhase(_, _)
\* Control reaches the n-th dispatch loop: its first call is made, or, the
\* loop being empty, control goes on to the next loop, or to the end.
StartPhase(r, n) ==
  IF n > Len(PhaseOrder) THEN Finish(r)
  ELSE IF Pending(r, PhaseOrder[n]) THEN [r EXCEPT !.pc = PhaseOrder[n], !.i = 1]
  ELSE StartPhase(r, n + 1)

\* The loop of a phase is over: control goes on to the loop after it.
AfterPhase(r, phase) ==
  StartPhase(r, 1 + CHOOSE n \in 1..Len(PhaseOrder) : PhaseOrder[n] = phase)

\* Line 124: the comparison loop is over; dispatch starts.
AfterCompare(r) == StartPhase(r, 1)

\* Lines 95-98: the loop reaches item k: its record is read and doCompare
\* suspends in getMDStatus.
BeginCompare(r, k, st) ==
  [r EXCEPT !.pc = "compare", !.i = k,
            !.syncStatus = getSyncStatus(st, r.items[k])]

AddExport_noBatch(toExport, filepath, id) ==
  Append(toExport, [path |-> filepath, ids |-> <<id>>])
\* Lines 101-105: toExport[filepath], in the insertion order of its keys.
AddExport(toExport, filepath, id) ==
  IF \E k \in 1..Len(toExport) : toExport[k].path = filepath
  THEN [k \in 1..Len(toExport) |->
          IF toExport[k].path = filepath
          THEN [toExport[k] EXCEPT !.ids = Append(@, id)]
          ELSE toExport[k]]
  ELSE Append(toExport, [path |-> filepath, ids |-> <<id>>])

Partition_always(r, id, compareResult) ==
  CASE compareResult = "MDAhead" ->
         [r EXCEPT !.toImport = Append(@, r.syncStatus)]
    [] compareResult = "NeedDiff" ->
         [r EXCEPT !.toDiff = Append(@, r.syncStatus)]
    [] OTHER -> [r EXCEPT !.toExport = AddExport(@, r.syncStatus.path, id)]

Partition_diffImports(r, id, compareResult) ==
  CASE compareResult = "NoteAhead" ->
         [r EXCEPT !.toExport = AddExport(@, r.syncStatus.path, id)]
    [] compareResult \in {"MDAhead", "NeedDiff"} ->
         [r EXCEPT !.toImport = Append(@, r.syncStatus)]
    [] OTHER -> r

\* Lines 99-115: the switch on the comparison's result.
Partition(r, id, compareResult) ==
  CASE compareResult = "NoteAhead" ->
         [r EXCEPT !.toExport = AddExport(@, r.syncStatus.path, id)]
    [] compareResult = "MDAhead" ->
         [r EXCEPT !.toImport = Append(@, r.syncStatus)]
    [] compareResult = "NeedDiff" ->
         [r EXCEPT !.toDiff = Append(@, r.syncStatus)]
    [] OTHER -> r

OnThrow_continue(r) ==
  CASE r.pc = "compare" ->
         IF r.i < Len(r.items)
         THEN [r EXCEPT !.i = @ + 1, !.syncStatus = store[r.items[r.i + 1]]]
         ELSE AfterCompare(r)
    [] r.pc = "export" ->
         IF r.i < Len(r.toExport) THEN [r EXCEPT !.i = @ + 1]
         ELSE AfterPhase(r, "export")
    [] r.pc \in {"import", "reexport"} ->
         IF r.i < Len(r.toImport) THEN [r EXCEPT !.pc = "import", !.i = @ + 1]
         ELSE AfterPhase(r, "import")
    [] OTHER ->
         IF r.i < Len(r.toDiff) THEN [r EXCEPT !.i = @ + 1]
         ELSE AfterPhase(r, "diff")
\* Lines 180-186: an exception of the try block lands in the catch; the
\* function logs it and returns.
OnThrow(r) == [r EXCEPT !.pc = "idle", !.outcome = "failed"]

\* ------------------------------------------------------------ collaborators
\* addon.api.$export.syncMDBatch(dir, ids) on the files: every note of ids is
\* rendered to its file in dir, whose header carries the note's version.
syncMDBatchFiles(f, nt, dir, ids) ==
  [key \in DOMAIN f |->
     IF key[1] = dir /\ key[2] \in {getMDFileName(id) : id \in Range(ids)}
     THEN LET id == CHOOSE x \in Range(ids) : getMDFileName(x) = key[2]
          IN  [meta |-> TRUE, version |-> nt[id].version,
               content |-> note2md(nt[id].content)]
     ELSE f[key]]

\* syncMDBatch on the store: the record of every exported note is refreshed
\* with the digests of what was written and what was read.
syncMDBatchStore(st, nt, dir, ids) ==
  [id \in DOMAIN st |->
     IF id \in Range(ids)
     THEN [itemID |-> id, path |-> dir, filename |-> getMDFileName(id),
           md5 |-> md5(note2md(nt[id].content)),
           noteMd5 |-> md5(nt[id].content), lastsync |-> 1]
     ELSE st[id]]

\* addon.api.$import.fromMD(filepath, {noteId}): the note's content becomes
\* the file's.
fromMD(nt, f, filepath, noteId) ==
  [nt EXCEPT ![noteId].content = md2note(f[filepath].content)]

\* --------------------------------------------------- callSyncing: the entry
\* Lines 28-98, up to the first await: the single-flight test, the input
\* resolution, the empty-set return, the active-editor filter, the progress
\* window and the call of doCompare on the first candidate. st is the store
\* as the call finds it.
callSyncing(items, quiet, skipActive, reason, st) ==
  IF LockHeld
  THEN /\ lastCall' = "rejected"
       /\ runs' = Retire(runs)
       /\ UNCHANGED lock
  ELSE /\ FreeSlots # {}
       /\ LET s == FreeSlot
              q == IF dataEnv = "development" THEN FALSE ELSE quiet
              cand == ResolveItems(items, st)
              rest == FilterActive(cand, skipActive)
              r0 == [IdleRun EXCEPT !.outcome = "running", !.given = items,
                                    !.candidates = cand, !.items = cand,
                                    !.skipActive = skipActive,
                                    !.reason = reason, !.quiet = quiet]
              r1 == [r0 EXCEPT !.items = rest,
                               !.skippedCount =
                                  IF skipActive THEN SkippedCount(cand, rest)
                                  ELSE 0,
                               !.progress = ~q]
          IN  IF cand = <<>>
              THEN /\ runs' = [Retire(runs) EXCEPT ![s] = [r0 EXCEPT !.outcome = "empty"]]
                   /\ lock' = EmptyReturnLock
                   /\ lastCall' = "empty"
              ELSE IF rest = <<>>
              THEN /\ runs' = [Retire(runs) EXCEPT ![s] = Finish(r1)]
                   /\ lock' = FinalLock
                   /\ lastCall' = "finished"
              ELSE /\ runs' = [Retire(runs) EXCEPT ![s] = BeginCompare(r1, 1, st)]
                   /\ lock' = TRUE
                   /\ lastCall' = "started"

\* The lock once run r has taken a step: released when the step was its last.
LockAfter(r) == IF r.pc = "idle" THEN FinalLock ELSE lock

\* api.ts 131: exportNotes returns; what it did to Zotero's items stays.
Return(e) == [IdleExp EXCEPT !.temp = e.temp, !.erased = e.erased]

\* api.ts 117: the condition under which the cleanup erases allNoteItems.
CleanupErases(options) == options.embedLink /\ ~options.exportNote

\* api.ts 102-131: the exports to Markdown are over; the cleanup starts with
\* its first Zotero.Items.erase, or there is none and the function returns.
AfterSync(e) ==
  IF CleanupErases(e.options) /\ e.all # <<>>
  THEN [e EXCEPT !.pc = "erase", !.k = 1]
  ELSE Return(e)

\* exportNotes, awaiting run s at line 87, goes on when that run returns.
ExpAfter(s, r) ==
  IF exp.pc = "await" /\ exp.run = s /\ r.pc = "idle" THEN AfterSync(exp)
  ELSE exp

\* A call from the user interface, which shows its progress.
ManualCall(items, skipActive) ==
  /\ callSyncing(items, FALSE, skipActive, "manual", store)
  /\ UNCHANGED <<dataEnv, store, notes, mdfile, editors, exp, sched, edits,
                 exports, cmp>>

\* ----------------------------------------------- callSyncing: its resumptions
\* Lines 98-123: getMDStatus returns, doCompare classifies the note, the
\* switch files it, and the loop goes on to the next candidate or to dispatch.
CompareResume(s) ==
  LET r == runs[s]
      id == r.items[r.i]
      MDStatus == mdfile[PathJoin(r.syncStatus.path, r.syncStatus.filename)]
      compareResult == doCompare(r.syncStatus, MDStatus, notes[id])
      filed == [Partition(r, id, compareResult) EXCEPT
                  !.trace = Append(@, Event("compare", id, r.syncStatus.path,
                                            <<>>, compareResult, FALSE))]
      next == IF r.i < Len(r.items) THEN BeginCompare(filed, r.i + 1, store)
              ELSE AfterCompare(filed)
  IN  /\ r.pc = "compare"
      /\ runs' = [Retire(runs) EXCEPT ![s] = next]
      /\ lock' = LockAfter(next)
      /\ lastCall' = IF next.pc = "idle" THEN next.outcome ELSE "none"
      /\ exp' = ExpAfter(s, next)
      /\ UNCHANGED <<dataEnv, store, notes, mdfile, editors, sched,
                     edits, exports, cmp>>

\* Lines 127-136: the batched export of one directory returns.
ExportResume(s) ==
  LET r == runs[s]
      e == r.toExport[r.i]
      done == [r EXCEPT !.trace = Append(@, Event("export", 0, e.path, e.ids,
                                                  "", FALSE))]
      next == IF r.i < Len(r.toExport) THEN [done EXCEPT !.i = @ + 1]
              ELSE AfterPhase(done, "export")
  IN  /\ r.pc = "export"
      /\ mdfile' = syncMDBatchFiles(mdfile, notes, e.path, e.ids)
      /\ store' = syncMDBatchStore(store, notes, e.path, e.ids)
      /\ runs' = [Retire(runs) EXCEPT ![s] = next]
      /\ lock' = LockAfter(next)
      /\ lastCall' = IF next.pc = "idle" THEN next.outcome ELSE "none"
      /\ exp' = ExpAfter(s, next)
      /\ UNCHANGED <<dataEnv, notes, editors, sched, edits,
                     exports, cmp>>

\* Lines 146-148: fromMD returns: the file's content is in the note.
ImportResume(s) ==
  LET r == runs[s]
      syncStatus == r.toImport[r.i]
      filepath == PathJoin(syncStatus.path, syncStatus.filename)
      next == [r EXCEPT !.pc = "reexport",
                        !.trace = Append(@, Event("import", syncStatus.itemID,
                                    syncStatus.path, <<>>, "",
                                    syncStatus.itemID \in ActiveNoteIds))]
  IN  /\ r.pc = "import"
      /\ mdfile[filepath].meta
      /\ notes' = fromMD(notes, mdfile, filepath, syncStatus.itemID)
      /\ runs' = [Retire(runs) EXCEPT ![s] = next]
      /\ lastCall' = "none"
      /\ UNCHANGED <<lock, dataEnv, store, mdfile, editors, exp, sched,
                     edits, exports, cmp>>

ReexportBatch_none(syncStatus) == <<>>
\* Line 150: the notes of the re-export: the imported note alone.
ReexportBatch(syncStatus) == <<syncStatus.itemID>>

\* Lines 149-151: the re-export of the imported note returns.
ReexportResume(s) ==
  LET r == runs[s]
      syncStatus == r.toImport[r.i]
      done == [r EXCEPT !.trace = Append(@, Event("reexport", syncStatus.itemID,
                                    syncStatus.path, ReexportBatch(syncStatus),
                                    "", FALSE))]
      next == IF r.i < Len(r.toImport)
              THEN [done EXCEPT !.pc = "import", !.i = @ + 1]
              ELSE AfterPhase(done, "import")
  IN  /\ r.pc = "reexport"
      /\ mdfile' = syncMDBatchFiles(mdfile, notes, syncStatus.path,
                                    ReexportBatch(syncStatus))
      /\ store' = syncMDBatchStore(store, notes, syncStatus.path,
                                   ReexportBatch(syncStatus))
      /\ runs' = [Retire(runs) EXCEPT ![s] = next]
      /\ lock' = LockAfter(next)
      /\ lastCall' = IF next.pc = "idle" THEN next.outcome ELSE "none"
      /\ exp' = ExpAfter(s, next)
      /\ UNCHANGED <<dataEnv, notes, editors, sched, edits,
                     exports, cmp>>

\* Lines 155-166: onShowSyncDiff returns for one conflicting note.
DiffResume(s) ==
  LET r == runs[s]
      syncStatus == r.toDiff[r.i]
      done == [r EXCEPT !.trace = Append(@, Event("diff", syncStatus.itemID,
                                    syncStatus.path, <<>>, "", FALSE))]
      next == IF r.i < Len(r.toDiff) THEN [done EXCEPT !.i = @ + 1]
              ELSE AfterPhase(done, "diff")
  IN  /\ r.pc = "diff"
      /\ runs' = [Retire(runs) EXCEPT ![s] = next]
      /\ lock' = LockAfter(next)
      /\ lastCall' = IF next.pc = "idle" THEN next.outcome ELSE "none"
      /\ exp' = ExpAfter(s, next)
      /\ UNCHANGED <<dataEnv, store, notes, mdfile, editors, sched,
                     edits, exports, cmp>>

\* The awaited collaborator (getMDStatus, syncMDBatch, fromMD or
\* onShowSyncDiff) throws instead of returning.
Throw(s) ==
  LET r == runs[s]
      next == OnThrow([r EXCEPT !.trace = Append(@, Event("throw", 0, "", <<>>,
                                                          r.pc, FALSE))])
  IN  /\ r.pc # "idle"
      /\ runs' = [Retire(runs) EXCEPT ![s] = next]
      /\ lock' = LockAfter(next)
      /\ lastCall' = IF next.pc = "idle" THEN next.outcome ELSE "none"
      /\ exp' = ExpAfter(s, next)
      /\ UNCHANGED <<dataEnv, store, notes, mdfile, editors, sched,
                     edits, exports, cmp>>

\* ---------------------------------------------------------------- scheduler
\* Lines 7-26 outside the timer's callback: the timer is installed when the
\* configured period is positive (once: the caller does not install a second).
setSyncing ==
  /\ ~sched.timer
  /\ sched.period > 0
  /\ sched' = [sched EXCEPT !.timer = TRUE, !.syncPeriod = sched.period]
  /\ NoCall
  /\ UNCHANGED <<lock, dataEnv, store, notes, mdfile, editors, exp,
                 edits, exports, cmp>>

TickPeriod_captured == sched.syncPeriod
\* Line 17: getPref("syncPeriodSeconds"), read at the tick.
TickPeriod == sched.period

\* Lines 11-24: one tick of the timer.
Tick ==
  /\ sched.timer
  /\ sched' = IF ~sched.alive THEN [sched EXCEPT !.timer = FALSE] ELSE sched
  /\ IF sched.focus /\ TickPeriod > 0
     THEN callSyncing(<<>>, TRUE, TRUE, "auto", store)
     ELSE NoCall /\ UNCHANGED lock
  /\ UNCHANGED <<dataEnv, store, notes, mdfile, editors, exp, edits, exports,
                 cmp>>

\* addon.data.alive is cleared when the add-on shuts down.
Teardown ==
  /\ sched.alive
  /\ sched' = [sched EXCEPT !.alive = FALSE]
  /\ NoCall
  /\ UNCHANGED <<lock, dataEnv, store, notes, mdfile, editors, exp,
                 edits, exports, cmp>>

\* The main window gets or loses the input focus (document.hasFocus()).
SetFocus(b) ==
  /\ b # sched.focus
  /\ sched' = [sched EXCEPT !.focus = b]
  /\ NoCall
  /\ UNCHANGED <<lock, dataEnv, store, notes, mdfile, editors, exp,
                 edits, exports, cmp>>

\* The user changes the pref syncPeriodSeconds.
SetPref(p) ==
  /\ p # sched.period
  /\ sched' = [sched EXCEPT !.period = p]
  /\ NoCall
  /\ UNCHANGED <<lock, dataEnv, store, notes, mdfile, editors, exp,
                 edits, exports, cmp>>

\* --------------------------------------------------------------- exportNotes
toSync_always(st, nt, id, syncDir, overwrite) ==
  [st EXCEPT ![id] =
     [itemID |-> id, path |-> syncDir, filename |-> getMDFileName(id),
      md5 |-> "", noteMd5 |-> md5(nt[id].content), lastsync |-> 0]]

\* toSync (api.ts 155-171) on store st: the record is left alone when the note
\* is under sync and overwrite is off, and is reset otherwise.
toSync(st, nt, id, syncDir, overwrite) ==
  IF ~overwrite /\ isSyncNote(st, id) THEN st
  ELSE [st EXCEPT ![id] =
          [itemID |-> id, path |-> syncDir, filename |-> getMDFileName(id),
           md5 |-> "", noteMd5 |-> md5(nt[id].content), lastsync |-> 0]]

\* getLinkedNotesRecursively: the notes a note links to, directly or through
\* other notes. Every note of the model links to the note after it.
getLinkedNotesRecursively(id) == {x \in NoteIds : x > id}

\* The ids of the notes ZoteroPane.newNote() created.
TempIds(e) == {MaxNotes + j : j \in 1..Len(e.temp)}

\* The note whose content a note carries: a copy carries its original's.
Original(e, id) == IF id > MaxNotes THEN e.temp[id - MaxNotes] ELSE id

\* api.ts 50-64: the linked notes that are not among the input notes, when
\* standaloneLink is on.
LinkedNoteItems(e) ==
  IF e.options.standaloneLink
  THEN SeqOfSet(UNION {getLinkedNotesRecursively(Original(e, id)) :
                         id \in Range(e.items)} \ Range(e.items))
  ELSE <<>>

\* api.ts 71: the folder picker opens.
PickerOpens(options) == options.exportMD /\ options.setAutoSync

\* api.ts 29: copies of the input notes are made.
CopiesInput(options) ==
  (options.embedLink \/ options.exportNote) /\ ~options.setAutoSync

\* api.ts 50-100, up to the first await: inputNoteItems are known; the linked
\* notes are found, and with exportMD either the picker has returned raw and
\* toSync is called for the first input note, or toMD is called for the first
\* of all the notes.
AfterInputs(e, raw) ==
  LET linked == LinkedNoteItems(e)
      e1 == [e EXCEPT !.linked = linked, !.all = e.items \o linked]
  IN  IF ~e.options.exportMD THEN AfterSync(e1)
      ELSE IF ~e.options.setAutoSync THEN [e1 EXCEPT !.pc = "toMD", !.k = 1]
      ELSE IF raw = "" THEN AfterSync(e1)
      ELSE [e1 EXCEPT !.pc = "toSync", !.k = 1, !.syncDir = raw]

\* api.ts 12-79: exportNotes is called: it suspends in the first newNote()
\* when it copies its input, and otherwise goes on with its input; raw is what
\* the folder picker returns when it opens ("" when cancelled).
exportNotes(noteItems, options, raw) ==
  /\ exp.pc = "idle"
  /\ exports < MaxExports
  /\ Range(noteItems) \cap exp.erased = {}
  /\ ~PickerOpens(options) => raw = ""
  /\ exports' = exports + 1
  /\ exp' = LET e0 == [IdleExp EXCEPT !.options = options, !.given = noteItems,
                                      !.temp = exp.temp, !.erased = exp.erased]
            IN  IF CopiesInput(options)
                THEN [e0 EXCEPT !.pc = "newNote", !.k = 1]
                ELSE AfterInputs([e0 EXCEPT !.items = noteItems], raw)
  /\ NoCall
  /\ UNCHANGED <<lock, dataEnv, store, notes, mdfile, editors, sched,
                 edits, cmp>>

\* api.ts 31-48: the copy of input note k is made and saved, and joins
\* inputNoteItems; the loop goes on to the next note or is over.
NewNoteResume ==
  LET e == [exp EXCEPT !.temp = Append(@, exp.given[exp.k]),
                       !.items = Append(@, MaxNotes + Len(exp.temp) + 1)]
  IN  /\ exp.pc = "newNote"
      /\ exp' = IF exp.k < Len(exp.given) THEN [e EXCEPT !.k = @ + 1]
                ELSE AfterInputs(e, "")
      /\ NoCall
      /\ UNCHANGED <<lock, dataEnv, store, notes, mdfile, editors, sched,
                     edits, exports, cmp>>

\* api.ts 78-91: getMDFileName returns inside toSync and the record of the note
\* is written: reset for an input note, kept for a linked note under sync. The
\* loops go on to the next note or, after the last, onSyncing (callSyncing) is
\* called on all the notes.
ToSyncResume ==
  LET inLinked == exp.pc = "toSyncLinked"
      list == IF inLinked THEN exp.linked ELSE exp.items
      id == list[exp.k]
  IN  /\ exp.pc \in {"toSync", "toSyncLinked"}
      /\ store' = toSync(store, notes, id, exp.syncDir, ~inLinked)
      /\ IF exp.k < Len(list)
         THEN /\ exp' = [exp EXCEPT !.k = @ + 1]
              /\ NoCall
              /\ UNCHANGED lock
         ELSE IF ~inLinked /\ exp.linked # <<>>
         THEN /\ exp' = [exp EXCEPT !.pc = "toSyncLinked", !.k = 1]
              /\ NoCall
              /\ UNCHANGED lock
         ELSE /\ callSyncing(exp.all, TRUE, FALSE, "export", store')
              /\ exp' = IF lastCall' = "started"
                        THEN [exp EXCEPT !.pc = "await", !.run = FreeSlot]
                        ELSE AfterSync(exp)
      /\ UNCHANGED <<dataEnv, notes, mdfile, editors, sched, edits, exports,
                     cmp>>

\* api.ts 94-99: toMD returns for note k of all the notes (a file of the
\* user's choosing is written, which no record points to).
ToMDResume ==
  /\ exp.pc = "toMD"
  /\ exp' = IF exp.k < Len(exp.all) THEN [exp EXCEPT !.k = @ + 1]
            ELSE AfterSync(exp)
  /\ NoCall
  /\ UNCHANGED <<lock, dataEnv, store, notes, mdfile, editors, sched,
                 edits, exports, cmp>>

\* api.ts 119-125: Zotero.Items.erase returns for note k of all the notes.
EraseResume ==
  LET e == [exp EXCEPT !.erased = @ \cup {exp.all[exp.k]}]
  IN  /\ exp.pc = "erase"
      /\ exp' = IF exp.k < Len(exp.all) THEN [e EXCEPT !.k = @ + 1]
                ELSE Return(e)
      /\ NoCall
      /\ UNCHANGED <<lock, dataEnv, store, notes, mdfile, editors, sched,
                     edits, exports, cmp>>

\* --------------------------------------------------------------- environment
\* The user edits a note in Zotero.
EditNote(id, c) ==
  /\ edits < MaxEdits
  /\ c # notes[id].content
  /\ notes' = [notes EXCEPT ![id].content = c]
  /\ edits' = edits + 1
  /\ NoCall
  /\ UNCHANGED <<lock, dataEnv, store, mdfile, editors, exp, sched,
                 exports, cmp>>

\* Zotero's own sync with the server gives the note a new version.
RemoteSync(id) ==
  /\ edits < MaxEdits
  /\ notes[id].version < MaxVersion
  /\ notes' = [notes EXCEPT ![id].version = @ + 1]
  /\ edits' = edits + 1
  /\ NoCall
  /\ UNCHANGED <<lock, dataEnv, store, mdfile, editors, exp, sched,
                 exports, cmp>>

\* The file of a note under sync, where its record says it is.
FileOf(id) == PathJoin(store[id].path, store[id].filename)

\* The user edits the Markdown file of a note under sync.
EditFile(id, c) ==
  /\ edits < MaxEdits
  /\ isSyncNote(store, id)
  /\ mdfile[FileOf(id)].meta
  /\ c # mdfile[FileOf(id)].content
  /\ mdfile' = [mdfile EXCEPT ![FileOf(id)].content = c]
  /\ edits' = edits + 1
  /\ NoCall
  /\ UNCHANGED <<lock, dataEnv, store, notes, editors, exp, sched,
                 exports, cmp>>

\* The user deletes the file.
DeleteFile(id) ==
  /\ edits < MaxEdits
  /\ isSyncNote(store, id)
  /\ mdfile[FileOf(id)].meta
  /\ mdfile' = [mdfile EXCEPT ![FileOf(id)] = NoFile]
  /\ edits' = edits + 1
  /\ NoCall
  /\ UNCHANGED <<lock, dataEnv, store, notes, editors, exp, sched,
                 exports, cmp>>

\* The file's header becomes unreadable: its version marker reads negative.
CorruptFile(id) ==
  /\ edits < MaxEdits
  /\ isSyncNote(store, id)
  /\ mdfile[FileOf(id)].meta
  /\ mdfile[FileOf(id)].version >= 0
  /\ mdfile' = [mdfile EXCEPT ![FileOf(id)].version = -1]
  /\ edits' = edits + 1
  /\ NoCall
  /\ UNCHANGED <<lock, dataEnv, store, notes, editors, exp, sched,
                 exports, cmp>>

\* A note's editor gets the focus, loses it, or its window dies; only one
\* editor has the focus.
SetEditor(id, e) ==
  /\ edits < MaxEdits
  /\ e # editors[id]
  /\ editors' = [x \in NoteIds |->
                   IF x = id THEN e
                   ELSE IF e = "focused" /\ editors[x] = "focused" THEN "none"
                   ELSE editors[x]]
  /\ edits' = edits + 1
  /\ NoCall
  /\ UNCHANGED <<lock, dataEnv, store, notes, mdfile, exp, sched,
                 exports, cmp>>

\* ------------------------------------------------------------ specification
NoCmp == [syncStatus |-> NoRecord, MDStatus |-> NoFile,
          noteItem |-> [content |-> "<p>a</p>", version |-> 0], result |-> ""]

Init ==
  /\ lock = FALSE
  /\ dataEnv = "production"
  /\ store = [id \in NoteIds |-> NoRecord]
  /\ notes = [id \in NoteIds |-> [content |-> "<p>a</p>", version |-> 0]]
  /\ mdfile = [key \in Dirs \X NoteIds |-> NoFile]
  /\ editors = [id \in NoteIds |-> "none"]
  /\ runs = [s \in Slots |-> IdleRun]
  /\ exp = IdleExp
  /\ sched = [timer |-> FALSE, alive |-> TRUE, focus |-> TRUE, period |-> 1,
              syncPeriod |-> 0]
  /\ lastCall = "none"
  /\ edits = 0
  /\ exports = 0
  /\ cmp = NoCmp

Next ==
  \/ \E items \in SortedLists, skipActive \in BOOLEAN :
       ManualCall(items, skipActive)
  \/ \E s \in Slots : CompareResume(s)
  \/ \E s \in Slots : ExportResume(s)
  \/ \E s \in Slots : ImportResume(s)
  \/ \E s \in Slots : ReexportResume(s)
  \/ \E s \in Slots : DiffResume(s)
  \/ \E s \in Slots : Throw(s)
  \/ setSyncing
  \/ Tick
  \/ \E noteItems \in SortedLists \ {<<>>}, raw \in Dirs \cup {""} :
       exportNotes(noteItems, SyncOptions, raw)
  \/ ToSyncResume
  \/ \E id \in NoteIds, c \in NoteContents : EditNote(id, c)
  \/ \E id \in NoteIds : RemoteSync(id)
  \/ \E id \in NoteIds, c \in MDContents : EditFile(id, c)
  \/ \E id \in NoteIds : DeleteFile(id)
  \/ \E id \in NoteIds : CorruptFile(id)
  \/ \E id \in NoteIds, e \in {"none", "focused", "dead"} :
       SetEditor(id, e)

Spec == Init /\ [][Next]_vars

\* ------------------------------------------- specification: runs on any store
\* The states a synced note, its record and its file can be in when a run
\* starts: the record as an export or an enrolment left it, the file as the
\* user left it.
SyncStatuses(id) ==
  [itemID : {id}, path : Dirs, filename : {getMDFileName(id)},
   md5 : {"", md5("a")}, noteMd5 : {md5(c) : c \in NoteContents},
   lastsync : {1}]

FilesAtStart ==
  {NoFile}
    \cup [meta : {TRUE}, version : {-1, 0}, content : {"a"}]
    \cup [meta : {TRUE}, version : {0}, content : {"b"}]
    \cup [meta : {TRUE}, version : {MaxVersion}, content : {"a"}]

InitRun ==
  /\ lock = FALSE
  /\ dataEnv = "production"
  /\ store \in [NoteIds -> {NoRecord} \cup UNION {SyncStatuses(id) : id \in NoteIds}]
  /\ \A id \in NoteIds : store[id].itemID \in {0, id}
  /\ notes = [id \in NoteIds |-> [content |-> "<p>a</p>", version |-> 0]]
  /\ mdfile \in [Dirs \X NoteIds -> FilesAtStart]
  /\ \A key \in Dirs \X NoteIds :
       mdfile[key] # NoFile => store[key[2]].path = key[1]
  /\ editors = [id \in NoteIds |-> "none"]
  /\ runs = [s \in Slots |-> IdleRun]
  /\ exp = IdleExp
  /\ sched = [timer |-> TRUE, alive |-> TRUE, focus |-> TRUE, period |-> 1,
              syncPeriod |-> 1]
  /\ lastCall = "none"
  /\ edits = 0
  /\ exports = 0
  /\ cmp = NoCmp

NextRun ==
  \/ \E items \in ItemLists : ManualCall(items, FALSE)
  \/ Tick
  \/ \E s \in Slots : CompareResume(s)
  \/ \E s \in Slots : ExportResume(s)
  \/ \E s \in Slots : ImportResume(s)
  \/ \E s \in Slots : ReexportResume(s)
  \/ \E s \in Slots : DiffResume(s)
  \/ \E s \in Slots : Throw(s)

SpecRun == InitRun /\ [][NextRun]_vars

\* ----------------------------- specification: the scheduler and its add-on
\* A note at the start: not under sync, or under sync in d1 with its file as
\* the last run left it, or edited, deleted or damaged since.
SyncedRecord(id) ==
  [itemID |-> id, path |-> "d1", filename |-> getMDFileName(id),
   md5 |-> md5("a"), noteMd5 |-> md5("<p>a</p>"), lastsync |-> 1]

InitStore ==
  /\ store \in [NoteIds -> {NoRecord} \cup {SyncedRecord(id) : id \in NoteIds}]
  /\ \A id \in NoteIds : store[id].itemID \in {0, id}
  /\ notes = [id \in NoteIds |-> [content |-> "<p>a</p>", version |-> 0]]
  /\ mdfile \in [Dirs \X NoteIds ->
                   {NoFile} \cup [meta : {TRUE}, version : {0}, content : MDContents]
                            \cup [meta : {TRUE}, version : {-1}, content : {"a"}]]
  /\ \A key \in Dirs \X NoteIds :
       mdfile[key] # NoFile => store[key[2]].path = key[1]

InitSched ==
  /\ lock = FALSE
  /\ dataEnv \in {"production", "development"}
  /\ InitStore
  /\ editors = [id \in NoteIds |-> "none"]
  /\ runs = [s \in Slots |-> IdleRun]
  /\ exp = IdleExp
  /\ sched = [timer |-> FALSE, alive |-> TRUE, focus |-> TRUE, period |-> 1,
              syncPeriod |-> 0]
  /\ lastCall = "none"
  /\ edits = 0
  /\ exports = 0
  /\ cmp = NoCmp

\* setSyncing is called while the add-on starts, alive.
NextSched ==
  \/ sched.alive /\ setSyncing
  \/ Tick
  \/ Teardown
  \/ \E b \in BOOLEAN : SetFocus(b)
  \/ \E p \in Periods : SetPref(p)
  \/ \E s \in Slots : CompareResume(s)
  \/ \E s \in Slots : ExportResume(s)
  \/ \E s \in Slots : ImportResume(s)
  \/ \E s \in Slots : ReexportResume(s)
  \/ \E s \in Slots : DiffResume(s)
  \/ \E s \in Slots : Throw(s)

SpecSched == InitSched /\ [][NextSched]_vars

\* ------------------------------------ specification: exportNotes, any options
InitExport ==
  /\ lock = FALSE
  /\ dataEnv = "production"
  /\ InitStore
  /\ editors = [id \in NoteIds |-> "none"]
  /\ runs = [s \in Slots |-> IdleRun]
  /\ exp = IdleExp
  /\ sched = [timer |-> FALSE, alive |-> TRUE, focus |-> TRUE, period |-> 1,
              syncPeriod |-> 0]
  /\ lastCall = "none"
  /\ edits = 0
  /\ exports = 0
  /\ cmp = NoCmp

NextExport ==
  \/ \E noteItems \in ItemLists \ {<<>>}, options \in Options,
        raw \in Dirs \cup {""} : exportNotes(noteItems, options, raw)
  \/ NewNoteResume
  \/ ToSyncResume
  \/ ToMDResume
  \/ EraseResume
  \/ \E s \in Slots : CompareResume(s)
  \/ \E s \in Slots : ExportResume(s)
  \/ \E s \in Slots : ImportResume(s)
  \/ \E s \in Slots : ReexportResume(s)
  \/ \E s \in Slots : DiffResume(s)
  \/ \E s \in Slots : Throw(s)

SpecExport == InitExport /\ [][NextExport]_vars

\* --------------------------------------- specification: doCompare on its own
CompareRecords ==
  [itemID : {1}, path : {"d1"}, filename : {getMDFileName(1)},
   md5 : {""} \cup {md5(c) : c \in MDContents},
   noteMd5 : {md5(c) : c \in NoteContents}, lastsync : {1}]

InitCompare ==
  /\ lock = FALSE
  /\ dataEnv = "production"
  /\ store = [id \in NoteIds |-> NoRecord]
  /\ notes = [id \in NoteIds |-> [content |-> "<p>a</p>", version |-> 0]]
  /\ mdfile = [key \in Dirs \X NoteIds |-> NoFile]
  /\ editors = [id \in NoteIds |-> "none"]
  /\ runs = [s \in Slots |-> IdleRun]
  /\ exp = IdleExp
  /\ sched = [timer |-> FALSE, alive |-> TRUE, focus |-> TRUE, period |-> 1,
              syncPeriod |-> 0]
  /\ lastCall = "none"
  /\ edits = 0
  /\ exports = 0
  /\ cmp \in [syncStatus : CompareRecords, MDStatus : MDStatuses,
              noteItem : NoteItems, result : {""}]

\* doCompare is applied to the inputs drawn.
Compare ==
  /\ cmp.result = ""
  /\ cmp' = [cmp EXCEPT !.result = doCompare(cmp.syncStatus, cmp.MDStatus,
                                             cmp.noteItem)]
  /\ UNCHANGED <<lock, dataEnv, store, notes, mdfile, editors, runs, exp,
                 sched, lastCall, edits, exports>>

NextCompare == Compare

SpecCompare == InitCompare /\ [][NextCompare]_vars

\* =================================================================== claims
Trace(s) == runs[s].trace
Positions(s) == 1..Len(runs[s].trace)
\* The notes an entry of a trace is about.
EventIds(e) ==
  CASE e.op = "export" -> Range(e.ids)
    [] e.op = "throw" -> {}
    [] OTHER -> {e.id}
\* The invocation that the latest call began.
JustCalled(s) ==
  lastCall \in {"started", "empty", "finished"} /\ runs[s].outcome # "none"

\* C1, first part: at most one callSyncing invocation is between its entry
\* and its return at any moment.
C1_AtMostOne == Cardinality({s \in Slots : runs[s].pc # "idle"}) <= 1

\* A step in which callSyncing is called: from the user interface, from a
\* tick of the timer, or from exportNotes after its last toSync.
C1_IsCall ==
  \/ \E items \in ItemLists, skipActive \in BOOLEAN :
       ManualCall(items, skipActive)
  \/ sched.timer /\ sched.focus /\ sched.period > 0 /\ Tick
  \/ /\ \/ exp.pc = "toSync" /\ exp.k = Len(exp.items) /\ exp.linked = <<>>
        \/ exp.pc = "toSyncLinked" /\ exp.k = Len(exp.linked)
     /\ ToSyncResume

\* C1, second part: a call made while the lock is held changes neither the
\* lock nor the invocation in flight nor any note or file, and begins no
\* invocation; an invocation begins only in a call made with the lock free.
C1_Step ==
  /\ (lock /\ C1_IsCall) =>
       /\ lock' = lock
       /\ \A s \in Slots : runs[s].pc # "idle" => runs'[s] = runs[s]
       /\ \A s \in Slots : runs[s].pc = "idle" => runs'[s] = IdleRun
       /\ notes' = notes
       /\ mdfile' = mdfile
       /\ lastCall' = "rejected"
  /\ (\E s \in Slots : runs[s].pc = "idle" /\ runs'[s].outcome # "none") =>
       (~lock /\ C1_IsCall)

\* C1: single-flight: at most one invocation of callSyncing is in its
\* comparison or dispatch phase, and a call made while the lock is held
\* returns without comparing, dispatching, touching the lock or being queued.
C1_SingleFlight == []C1_AtMostOne /\ [][C1_Step]_vars

\* A call was rejected while another invocation was in flight.
C1_Witness ==
  lastCall = "rejected" /\ \E s \in Slots : runs[s].pc \in {"compare", "export"}

\* C2: every invocation that acquired the lock has released it when it
\* returns (normally, at the empty-set return, or after a collaborator threw):
\* the lock is never held while no invocation is in flight.
C2_LockReleased ==
  /\ (\A s \in Slots : runs[s].pc = "idle") => lock = FALSE
  /\ lastCall \in {"empty", "finished", "done", "failed"} => lock = FALSE

\* An invocation returned after fromMD threw, and the lock is free.
C2_Witness ==
  /\ lastCall = "failed"
  /\ lock = FALSE
  /\ \E s \in Slots :
       /\ runs[s].outcome = "failed"
       /\ Trace(s)[Len(Trace(s))].res = "import"

\* C3: once a collaborator has thrown in a run, that run compares and
\* dispatches nothing more and has returned to its caller.
C3_AbortOnFailure ==
  \A s \in Slots : \A k \in Positions(s) :
    Trace(s)[k].op = "throw" =>
      /\ k = Len(Trace(s))
      /\ runs[s].pc = "idle"
      /\ runs[s].outcome = "failed"

\* A batched export threw while more of the batch was still to be done.
C3_Witness ==
  \E s \in Slots :
    /\ runs[s].outcome = "failed"
    /\ Trace(s)[Len(Trace(s))].res = "export"
    /\ runs[s].toImport # <<>> \/ runs[s].i < Len(runs[s].toExport)

\* The outcome the claim gives for a record, a file status and a note.
C4_Claimed(syncStatus, MDStatus, noteItem) ==
  LET fileChanged == md5(MDStatus.content) # syncStatus.md5
      noteChanged == \/ md5(noteItem.content) # syncStatus.noteMd5
                     \/ MDStatus.version # noteItem.version
  IN  CASE ~MDStatus.meta -> "NoteAhead"
        [] MDStatus.meta /\ MDStatus.version < 0 -> "NeedDiff"
        [] OTHER ->
             CASE fileChanged /\ noteChanged -> "NeedDiff"
               [] ~fileChanged /\ noteChanged -> "NoteAhead"
               [] fileChanged /\ ~noteChanged -> "MDAhead"
               [] OTHER -> "UpToDate"

\* C4: doCompare returns NoteAhead without a file, NeedDiff for a negative
\* version marker, and otherwise the outcome that fileChanged and noteChanged
\* (a checksum or a version that differs) determine.
C4_doCompare ==
  cmp.result # "" =>
    cmp.result = C4_Claimed(cmp.syncStatus, cmp.MDStatus, cmp.noteItem)

\* A negative version marker gave NeedDiff although both checksums match.
C4_Witness ==
  /\ cmp.result = "NeedDiff"
  /\ cmp.MDStatus.meta
  /\ cmp.MDStatus.version < 0
  /\ md5(cmp.MDStatus.content) = cmp.syncStatus.md5
  /\ md5(cmp.noteItem.content) = cmp.syncStatus.noteMd5

\* The case of C5: the file is there with a readable header, its checksum
\* differs from the record's and the note's checksum equals the record's.
C5_Case ==
  /\ cmp.result # ""
  /\ cmp.MDStatus.meta
  /\ cmp.MDStatus.version >= 0
  /\ md5(cmp.MDStatus.content) # cmp.syncStatus.md5
  /\ md5(cmp.noteItem.content) = cmp.syncStatus.noteMd5

\* C5 as stated: in that case doCompare returns MDAhead.
C5_Original == C5_Case => cmp.result = "MDAhead"

\* C5, amended: in that case doCompare returns MDAhead when the file's version
\* marker equals the note's version (and NeedDiff when it does not).
C5_FileAhead ==
  C5_Case =>
    cmp.result = IF cmp.MDStatus.version = cmp.noteItem.version
                 THEN "MDAhead" ELSE "NeedDiff"

\* The case with equal versions: MDAhead.
C5_Witness ==
  C5_Case /\ cmp.MDStatus.version = cmp.noteItem.version
          /\ cmp.result = "MDAhead"

\* The phase of an entry of a trace.
C6_Rank(op) ==
  CASE op = "compare" -> 1
    [] op = "export" -> 2
    [] op \in {"import", "reexport"} -> 3
    [] op = "diff" -> 4
    [] OTHER -> 5

\* C6: in a run every comparison comes before every dispatch, every batched
\* export before every import (with its re-export), and every import before
\* every call of onShowSyncDiff; all candidates are compared before the first
\* dispatch.
C6_PhaseOrder ==
  \A s \in Slots :
    /\ \A j, k \in Positions(s) :
         j < k => C6_Rank(Trace(s)[j].op) <= C6_Rank(Trace(s)[k].op)
    /\ \A k \in Positions(s) :
         C6_Rank(Trace(s)[k].op) \in 2..4 =>
           Range(runs[s].items) =
             {Trace(s)[j].id : j \in {x \in 1..k : Trace(s)[x].op = "compare"}}

\* A finished run whose first candidate was imported after its second
\* candidate had been exported.
C6_Witness ==
  \E s \in Slots :
    /\ runs[s].outcome = "done"
    /\ Len(runs[s].items) = 2
    /\ \E j, k \in Positions(s) :
         /\ j < k
         /\ Trace(s)[j].op = "export"
         /\ runs[s].items[2] \in Range(Trace(s)[j].ids)
         /\ Trace(s)[k].op = "import"
         /\ Trace(s)[k].id = runs[s].items[1]

\* The notes a run compared as NoteAhead, and the directory each was
\* recorded under when it was compared.
C7_NoteAhead(s) ==
  {Trace(s)[k].id :
     k \in {x \in Positions(s) :
              Trace(s)[x].op = "compare" /\ Trace(s)[x].res = "NoteAhead"}}
C7_DirOf(s, id) ==
  LET k == CHOOSE x \in Positions(s) :
             Trace(s)[x].op = "compare" /\ Trace(s)[x].id = id
  IN  Trace(s)[k].path
C7_Exports(s) == {k \in Positions(s) : Trace(s)[k].op = "export"}
\* The export phase of the run is over.
C7_PhaseOver(s) ==
  \/ runs[s].outcome = "done"
  \/ runs[s].pc \in {"import", "reexport", "diff"}
  \/ /\ runs[s].outcome = "failed"
     /\ Trace(s)[Len(Trace(s))].res \in {"import", "reexport", "diff"}

\* C7: every batched export of a run is for one directory and lists exactly
\* the NoteAhead notes recorded under it, each once; no directory is exported
\* twice; and when the export phase is over every directory of a NoteAhead
\* note has had its export.
C7_Batching ==
  \A s \in Slots :
    /\ \A k \in C7_Exports(s) :
         LET e == Trace(s)[k]
         IN  /\ Range(e.ids) =
                  {id \in C7_NoteAhead(s) : C7_DirOf(s, id) = e.path}
             /\ Len(e.ids) = Cardinality(Range(e.ids))
             /\ e.ids # <<>>
    /\ \A j, k \in C7_Exports(s) :
         j # k => Trace(s)[j].path # Trace(s)[k].path
    /\ C7_PhaseOver(s) =>
         \A id \in C7_NoteAhead(s) :
           \E k \in C7_Exports(s) : Trace(s)[k].path = C7_DirOf(s, id)

\* A finished run that exported two notes of one directory in one call.
C7_Witness ==
  \E s \in Slots :
    /\ runs[s].outcome = "done"
    /\ \E k \in C7_Exports(s) : Len(Trace(s)[k].ids) = 2

\* The notes under sync.
C8_UnderSync == {id \in NoteIds : store[id] # NoRecord}

\* C8: the candidates of a call are the notes under sync when no list is
\* given and the given notes that are under sync otherwise; a run never
\* compares or dispatches a note that has no record.
C8_InputResolution ==
  \A s \in Slots :
    /\ JustCalled(s) =>
         Range(runs[s].candidates) =
           IF runs[s].given = <<>> THEN C8_UnderSync
           ELSE Range(runs[s].given) \cap C8_UnderSync
    /\ \A k \in Positions(s) : EventIds(Trace(s)[k]) \subseteq C8_UnderSync

\* A call was given a note that is not under sync beside one that is.
C8_Witness ==
  \E s \in Slots :
    /\ lastCall = "started"
    /\ runs[s].pc = "compare"
    /\ ~(Range(runs[s].given) \subseteq C8_UnderSync)
    /\ runs[s].candidates # <<>>

\* The notes whose editor is alive and has the focus.
C9_Focused == {id \in NoteIds : editors[id] = "focused"}

\* C9: with skipActive the candidates kept are those not focused in an editor
\* when the call filters them and skippedCount counts the ones removed;
\* without it all are kept and skippedCount is 0; a run compares and
\* dispatches only the candidates it kept.
C9_ActiveExclusion ==
  \A s \in Slots :
    /\ (JustCalled(s) /\ lastCall # "empty") =>
         IF runs[s].skipActive
         THEN /\ Range(runs[s].items) = Range(runs[s].candidates) \ C9_Focused
              /\ runs[s].skippedCount =
                   Cardinality(Range(runs[s].candidates) \cap C9_Focused)
         ELSE /\ runs[s].items = runs[s].candidates
              /\ runs[s].skippedCount = 0
    /\ \A k \in Positions(s) :
         EventIds(Trace(s)[k]) \subseteq Range(runs[s].items)

\* A call skipped a focused note that would have compared as NoteAhead.
C9_Witness ==
  \E s \in Slots :
    /\ lastCall = "started"
    /\ runs[s].skipActive
    /\ runs[s].skippedCount = 1
    /\ \E id \in Range(runs[s].candidates) \ Range(runs[s].items) :
         doCompare(store[id], mdfile[FileOf(id)], notes[id]) = "NoteAhead"

\* C10: a run started with skipActive never has fromMD write into a note
\* that is focused in an editor at the moment of the write.
C10_NoClobber ==
  \A s \in Slots :
    runs[s].skipActive =>
      \A k \in Positions(s) :
        ~(Trace(s)[k].op = "import" /\ Trace(s)[k].focused)

\* The entries of a run's trace with a given operation.
Events(s, op) == {k \in Positions(s) : Trace(s)[k].op = op}
\* What doCompare would return for a note now.
CompareNow(id) == doCompare(store[id], mdfile[FileOf(id)], notes[id])

RECURSIVE C11_Replay(_, _, _)
\* The comparison loop of a run (lines 95-123) on candidates items from the
\* k-th on, in the present state: r with every candidate filed by its result.
C11_Replay(r, items, k) ==
  IF k > Len(items) THEN r
  ELSE LET id == items[k]
           read == [r EXCEPT !.syncStatus = getSyncStatus(store, id)]
       IN  C11_Replay(Partition(read, id, CompareNow(id)), items, k + 1)

\* A run has just returned from line 186.
C11_Completed(s) == lastCall = "done" /\ runs[s].outcome = "done"

\* C11, the second run: in the state a completed run leaves, the comparison
\* loop of a run on the same candidates files nothing for export and nothing
\* for import.
C11_SecondRun ==
  \A s \in Slots :
    C11_Completed(s) =>
      LET second == C11_Replay(IdleRun, runs[s].items, 1)
      IN  second.toExport = <<>> /\ second.toImport = <<>>

\* C11, the first run: when a run has completed, every note it exported or
\* imported compares as UpToDate.
C11_Settled ==
  \A s \in Slots :
    C11_Completed(s) =>
      \A k \in Events(s, "export") \cup Events(s, "reexport") :
        \A id \in Range(Trace(s)[k].ids) : CompareNow(id) = "UpToDate"

\* C11: idempotence: of two runs to completion in immediate succession on the
\* same candidates with no change in between, the second performs no export
\* and no import, every note the first exported or imported being UpToDate.
C11_Idempotence == C11_SecondRun /\ C11_Settled

\* A run has completed that exported one of its two candidates and imported
\* the other.
C11_Witness ==
  \E s \in Slots :
    /\ C11_Completed(s)
    /\ Len(runs[s].items) = 2
    /\ Events(s, "export") # {}
    /\ Events(s, "import") # {}
    /\ Events(s, "reexport") # {}

\* The result of the comparison of a note in a run.
ResultOf(s, id) ==
  LET k == CHOOSE x \in Events(s, "compare") : Trace(s)[x].id = id
  IN  Trace(s)[k].res

\* C12, the step: an import is of a note compared as MDAhead, writes the
\* content of the file at path/filename into it, and is followed at once by
\* the re-export of that note alone to the recorded directory, unless a
\* collaborator throws.
C12_Step ==
  \A s \in Slots : \A k \in Events(s, "import") :
    LET e == Trace(s)[k]
    IN  /\ ResultOf(s, e.id) = "MDAhead"
        /\ IF k = Len(Trace(s))
           THEN /\ runs[s].pc = "reexport"
                /\ notes[e.id].content =
                     md2note(mdfile[PathJoin(e.path, getMDFileName(e.id))].content)
           ELSE \/ Trace(s)[k + 1].op = "throw"
                \/ /\ Trace(s)[k + 1].op = "reexport"
                   /\ Trace(s)[k + 1].id = e.id
                   /\ Trace(s)[k + 1].path = e.path
                   /\ Trace(s)[k + 1].ids = <<e.id>>

\* C12, the record: once the re-export has returned, the record's checksums
\* are those of the note and of the file, and the note compares as UpToDate.
C12_Record ==
  \A s \in Slots : \A k \in Events(s, "reexport") :
    LET id == Trace(s)[k].id
    IN  /\ store[id].noteMd5 = md5(notes[id].content)
        /\ store[id].md5 = md5(mdfile[FileOf(id)].content)
        /\ store[id].path = Trace(s)[k].path
        /\ CompareNow(id) = "UpToDate"

\* C12: every import is of an MDAhead note, from the file its record points
\* to, and is followed by the re-export of that single note before the next
\* import; after it the record matches the note and the file, and the note
\* compares as UpToDate.
C12_ImportThenReexport == C12_Step /\ C12_Record

\* The first of two imports has been re-exported and the second is under way.
C12_Witness ==
  \E s \in Slots :
    /\ runs[s].pc = "import"
    /\ runs[s].i = 2
    /\ Trace(s)[Len(Trace(s))].op = "reexport"
    /\ Trace(s)[Len(Trace(s))].id = runs[s].toImport[1].itemID
    /\ notes[runs[s].toImport[1].itemID].content = "<p>b</p>"

\* The candidates of a run whose comparison gave a result.
C17_Compared(s, res) ==
  {id \in Range(runs[s].items) :
     \E k \in Events(s, "compare") : Trace(s)[k].id = id /\ Trace(s)[k].res = res}
\* The entries of a run's trace in which an operation acts on a note.
C17_Acts(s, op, id) == {k \in Events(s, op) : id \in EventIds(Trace(s)[k])}

\* C17: in a run every note is compared at most once and acted on according
\* to its result only: a NoteAhead note is in at most one batched export, an
\* MDAhead note is imported and re-exported at most once, a NeedDiff note is
\* passed at most once to onShowSyncDiff with its id and directory, and an
\* UpToDate note is left alone; when the run has completed, each of these
\* actions has been taken exactly once.
C17_DispatchByOutcome ==
  \A s \in Slots :
    /\ \A id \in NoteIds : Cardinality(C17_Acts(s, "compare", id)) <= 1
    /\ \A id \in NoteIds :
         LET n(op) == Cardinality(C17_Acts(s, op, id))
             did(res) == id \in C17_Compared(s, res)
             due(res) == IF did(res) /\ runs[s].outcome = "done" THEN 1 ELSE 0
         IN  /\ n("export") <= (IF did("NoteAhead") THEN 1 ELSE 0)
             /\ n("import") <= (IF did("MDAhead") THEN 1 ELSE 0)
             /\ n("reexport") <= n("import")
             /\ n("diff") <= (IF did("NeedDiff") THEN 1 ELSE 0)
             /\ n("export") >= due("NoteAhead")
             /\ n("reexport") >= due("MDAhead")
             /\ n("diff") >= due("NeedDiff")
    /\ \A k \in Events(s, "diff") :
         Trace(s)[k].path = store[Trace(s)[k].id].path

\* A completed run that had one note to resolve and one to import: the first
\* went to onShowSyncDiff only, the second was imported only.
C17_Witness ==
  \E s \in Slots :
    /\ runs[s].outcome = "done"
    /\ \E x, y \in Range(runs[s].items) :
         /\ x \in C17_Compared(s, "NeedDiff")
         /\ y \in C17_Compared(s, "MDAhead")
         /\ C17_Acts(s, "diff", x) # {}
         /\ C17_Acts(s, "import", x) = {}
         /\ C17_Acts(s, "import", y) # {}

\* The invocation that a tick of the timer has just begun.
TickRun(s) == JustCalled(s) /\ runs[s].reason = "auto"

\* C13: a tick that finds the add-on torn down (addon.data.alive false)
\* begins no sync run.
C13_TeardownTerminal == \A s \in Slots : TickRun(s) => sched.alive

\* C14: a tick calls callSyncing only with the window focused and the pref
\* syncPeriodSeconds, as it is at the tick, above 0, and every run a tick
\* begins was called with no item list, quiet, skipActive and reason "auto".
C14_TickGuard ==
  /\ lastCall \in {"rejected", "started", "empty", "finished"} =>
       sched.focus /\ sched.period > 0
  /\ \A s \in Slots :
       TickRun(s) =>
         /\ runs[s].quiet
         /\ runs[s].skipActive
         /\ runs[s].given = <<>>
         /\ sched.focus
         /\ sched.period > 0

\* A tick began a run with the pref at a value other than the one the timer
\* was installed with.
C14_Witness ==
  \E s \in Slots :
    /\ TickRun(s)
    /\ lastCall = "started"
    /\ sched.period # sched.syncPeriod

\* The notes of the syncMDBatch call a run is waiting for.
C15_Batch(s) ==
  CASE runs[s].pc = "export" -> Range(runs[s].toExport[runs[s].i].ids)
    [] runs[s].pc = "reexport" -> {runs[s].toImport[runs[s].i].itemID}
    [] OTHER -> {}

\* A step writes a record only with the lock held, as the return of a
\* syncMDBatch call of the run in flight for that note.
C15_Step ==
  \A id \in NoteIds :
    store'[id] # store[id] =>
      /\ lock
      /\ \E s \in Slots : id \in C15_Batch(s) /\ runs'[s] # runs[s]

\* C15: every write to the Sync Status Store is made under the lock, by the
\* run that holds it, after its action on the note of the record.
C15_LockedWrites == [][C15_Step]_vars

\* C16: a call whose candidates are none once the notes not under sync and
\* the notes of the focused editors are out has returned with the lock
\* released, no comparison, no dispatch and no progress window.
C16_EmptyShortCircuit ==
  \A s \in Slots :
    (JustCalled(s) /\ runs[s].items = <<>>) =>
      /\ runs[s].pc = "idle"
      /\ lock = FALSE
      /\ Trace(s) = <<>>
      /\ ~runs[s].progress

\* C18: every note exportNotes has erased is a copy that ZoteroPane.newNote()
\* made.
C18_ErasesOnlyTemp == exp.erased \subseteq TempIds(exp)

\* The step in which exportNotes gets past its call of onSyncing (line 91).
C19_PastSync ==
  /\ exp.pc \in {"toSync", "toSyncLinked", "await"}
  /\ exp'.pc \notin {"toSync", "toSyncLinked", "await"}

\* When exportNotes gets past line 91, a run it began on its notes, with
\* active editors not skipped, has returned, every input note having a record.
C19_Step ==
  C19_PastSync =>
    /\ \A id \in Range(exp.items) : isSyncNote(store', id)
    /\ \E s \in Slots :
         /\ runs'[s].reason = "export"
         /\ runs'[s].outcome \in {"done", "failed"}
         /\ runs'[s].given = exp.all
         /\ ~runs'[s].skipActive

\* C19: exportNotes with exportMD, setAutoSync and a directory chosen enrols
\* its input notes and has them compared and dispatched by a run of its own
\* before it returns, whatever else is in flight when it is called.
C19_EnrolThenSync == [][C19_Step]_vars

\* The note toSync is writing the record of, and whether it overwrites.
C20_Note == IF exp.pc = "toSync" THEN exp.items[exp.k] ELSE exp.linked[exp.k]
C20_Reset(id) ==
  [itemID |-> id, path |-> exp.syncDir, filename |-> getMDFileName(id),
   md5 |-> "", noteMd5 |-> md5(notes[id].content), lastsync |-> 0]

\* C20, the write: toSync leaves every other record alone; without overwrite
\* it leaves the record of a note under sync alone too; otherwise the note's
\* record becomes the reset record of the chosen directory.
C20_Step ==
  (exp.pc \in {"toSync", "toSyncLinked"} /\ exp' # exp) =>
    /\ \A id \in NoteIds \ {C20_Note} : store'[id] = store[id]
    /\ store'[C20_Note] =
         IF exp.pc = "toSyncLinked" /\ store[C20_Note] # NoRecord
         THEN store[C20_Note]
         ELSE C20_Reset(C20_Note)

\* C20, the consequences: a record is under its note's id, a reset record
\* never compares as UpToDate, and the run exportNotes begins finds no input
\* note UpToDate.
C20_Inv ==
  /\ \A id \in NoteIds : store[id].itemID \in {0, id}
  /\ \A id \in NoteIds :
       (store[id] # NoRecord /\ store[id].md5 = "") =>
         CompareNow(id) # "UpToDate"
  /\ \A s \in Slots :
       (exp.pc = "await" /\ exp.run = s) =>
         \A k \in Events(s, "compare") :
           Trace(s)[k].id \in Range(exp.items) => Trace(s)[k].res # "UpToDate"

\* C20: toSync without overwrite leaves the record of a note under sync
\* unchanged; with overwrite, or on a note not under sync, it replaces the
\* note's record by one for the chosen directory with an empty file checksum,
\* the note's checksum and lastsync 0; so a note has one record at most and a
\* reset note does not compare as UpToDate in the next run.
C20_ToSync == []C20_Inv /\ [][C20_Step]_vars

\* exportNotes has reset its input note to another directory and left the
\* record of the linked note, under sync already, as it was.
C20_Witness ==
  /\ exp.pc = "await"
  /\ exp.linked # <<>>
  /\ store[exp.items[1]] = C20_Reset(exp.items[1])
  /\ store[exp.linked[1]] = SyncedRecord(exp.linked[1])
  /\ exp.syncDir # store[exp.linked[1]].path

====
